---- MODULE Spec2Model ----
(***************************************************************************)
(* Model of archivo.c++: a lexer, a symbol table, an expression builder    *)
(* with a type stack, six statement recognizers and the driver loop.       *)
(* Text (source code, token text, symbol values) is a sequence of          *)
(* one-character strings, so that lexing, stod and to_string are computed. *)
(* Token indices are 0-based as in the source: Tok(t, k) is tokens[k].     *)
(***************************************************************************)
EXTENDS Integers, Sequences, FiniteSets, TLC

\* ------------------------------------------------------------------ text

Digitos == {"0", "1", "2", "3", "4", "5", "6", "7", "8", "9"}

Letras ==
  {"a", "b", "c", "d", "e", "f", "g", "h", "i", "j", "k", "l", "m", "n", "o",
   "p", "q", "r", "s", "t", "u", "v", "w", "x", "y", "z", "_"}

\* [a-zA-Z0-9_], the class \b is defined by
EsPalabra(c) == c \in Letras \/ c \in Digitos

DigitoDe(c) ==
  CASE c = "0" -> 0 [] c = "1" -> 1 [] c = "2" -> 2 [] c = "3" -> 3
    [] c = "4" -> 4 [] c = "5" -> 5 [] c = "6" -> 6 [] c = "7" -> 7
    [] c = "8" -> 8 [] c = "9" -> 9

CharDe(n) ==
  CASE n = 0 -> "0" [] n = 1 -> "1" [] n = 2 -> "2" [] n = 3 -> "3"
    [] n = 4 -> "4" [] n = 5 -> "5" [] n = 6 -> "6" [] n = 7 -> "7"
    [] n = 8 -> "8" [] n = 9 -> "9"

\* input[pos .. pos+n-1], 1-based
Trozo(s, pos, n) == SubSeq(s, pos, pos + n - 1)

\* does the text w occur in s at pos?
EmpiezaCon(s, pos, w) ==
  /\ pos + Len(w) - 1 <= Len(s)
  /\ Trozo(s, pos, Len(w)) = w

\* length of the longest run of characters of class C in s from pos
RECURSIVE Racha(_, _, _)
Racha(s, pos, C) ==
  IF pos <= Len(s) /\ s[pos] \in C THEN 1 + Racha(s, pos + 1, C) ELSE 0

RECURSIVE Pot10(_)
Pot10(k) == IF k = 0 THEN 1 ELSE 10 * Pot10(k - 1)

\* value of a run of decimal digits that follows the sign sg
RECURSIVE ValorDigitos(_, _)
ValorDigitos(sg, ds) ==
  IF ds = <<>> THEN 0
  ELSE 10 * ValorDigitos(sg, SubSeq(ds, 1, Len(ds) - 1)) + sg * DigitoDe(ds[Len(ds)])

\* decimal digits of a natural number
RECURSIVE DigitosDe(_)
DigitosDe(n) ==
  IF n < 10 THEN <<CharDe(n)>> ELSE Append(DigitosDe(n \div 10), CharDe(n % 10))

\* the digits of n, left-padded with zeros to width w
RECURSIVE Relleno(_, _)
Relleno(n, w) ==
  IF w = 0 THEN <<>> ELSE Append(Relleno(n \div 10, w - 1), CharDe(n % 10))

\* ------------------------------------------------------------------ double

(***************************************************************************)
(* A C++ double is modelled as an exact fraction n/d in lowest terms       *)
(* (d > 0), or as an infinity with a sign, or as a NaN with a sign.  The   *)
(* zero is unsigned.  The inputs are kept small enough that every finite   *)
(* result is well inside the range a double holds.                         *)
(***************************************************************************)
RECURSIVE MCD(_, _)
MCD(a, b) == IF b = 0 THEN a ELSE MCD(b, a % b)

Abs(n) == IF n < 0 THEN -n ELSE n

Signo(n) == IF n < 0 THEN -1 ELSE 1

Fin(n, d) ==
  LET g == MCD(Abs(d), n % Abs(d))
  IN  [k |-> "fin", n |-> (Signo(d) * n) \div g, d |-> Abs(d) \div g]

Inf(s) == [k |-> "inf", s |-> s]

NaN(s) == [k |-> "nan", s |-> s]

\* the NaN an invalid operation produces (the x86 default NaN has its sign set)
NaNDefecto == NaN(-1)

EsCero(x) == x.k = "fin" /\ x.n = 0

SignoD(x) == IF x.k = "fin" THEN Signo(x.n) ELSE x.s

\* lval + rval
DSuma(x, y) ==
  CASE x.k = "nan" -> x
    [] y.k = "nan" -> y
    [] x.k = "inf" /\ y.k = "inf" -> IF x.s = y.s THEN x ELSE NaNDefecto
    [] x.k = "inf" -> x
    [] y.k = "inf" -> y
    [] OTHER -> Fin(x.n * y.d + y.n * x.d, x.d * y.d)

DNeg(x) ==
  IF x.k = "fin" THEN Fin(-x.n, x.d) ELSE [x EXCEPT !.s = -x.s]

\* lval - rval
DResta(x, y) ==
  CASE x.k = "nan" -> x
    [] y.k = "nan" -> y
    [] x.k = "fin" /\ y.k = "fin" -> Fin(x.n * y.d - y.n * x.d, x.d * y.d)
    [] OTHER -> DSuma(x, DNeg(y))

\* lval * rval
DMult(x, y) ==
  CASE x.k = "nan" -> x
    [] y.k = "nan" -> y
    [] x.k = "inf" \/ y.k = "inf" ->
         IF EsCero(x) \/ EsCero(y) THEN NaNDefecto ELSE Inf(SignoD(x) * SignoD(y))
    [] OTHER -> Fin(x.n * y.n, x.d * y.d)

\* lval / rval
DDiv(x, y) ==
  CASE x.k = "nan" -> x
    [] y.k = "nan" -> y
    [] x.k = "inf" /\ y.k = "inf" -> NaNDefecto
    [] x.k = "inf" -> Inf(x.s * SignoD(y))
    [] y.k = "inf" -> Fin(0, 1)
    [] y.n = 0 -> IF x.n = 0 THEN NaNDefecto ELSE Inf(Signo(x.n))
    [] OTHER -> Fin(x.n * y.d, x.d * y.n)

IntMin == -2147483647 - 1

IntMax == 2147483647

\* a conversion that rounds down
CastIntPiso(x, ub) == IF x.k # "fin" THEN ub ELSE x.n \div x.d

\* static_cast<int>(resultado): truncation toward zero; the conversion of a
\* value that no int holds is undefined, and yields ub
CastInt(x, ub) ==
  IF x.k # "fin" THEN ub
  ELSE LET q == IF x.n >= 0 \/ x.n % x.d = 0 THEN x.n \div x.d
                 ELSE (x.n \div x.d) + 1
       IN  IF q < IntMin \/ q > IntMax THEN ub ELSE q

\* std::to_string(int)
ToStringInt(n) ==
  IF n >= 0 THEN DigitosDe(n)
  ELSE LET u == -(n + 1)
           alto == IF u % 10 = 9 THEN (u \div 10) + 1 ELSE u \div 10
       IN  <<"-">> \o (IF alto = 0 THEN <<>> ELSE DigitosDe(alto))
             \o <<CharDe(((u % 10) + 1) % 10)>>

Decimales == 6

\* k decimal digits of r/d (0 <= r < d) by long division: the digits' value
\* q and the remainder r that is left
RECURSIVE Fraccion(_, _, _)
Fraccion(r, d, k) ==
  IF k = 0 THEN [q |-> 0, r |-> r]
  ELSE LET t == Fraccion(r, d, k - 1)
       IN  [q |-> t.q * 10 + (t.r * 10) \div d, r |-> (t.r * 10) % d]

\* std::to_string(double): printf's %f, six decimals, rounded to nearest, to
\* the even digit when the double is half way
ToStringDouble(x) ==
  CASE x.k = "inf" -> (IF x.s < 0 THEN <<"-">> ELSE <<>>) \o <<"i", "n", "f">>
    [] x.k = "nan" -> (IF x.s < 0 THEN <<"-">> ELSE <<>>) \o <<"n", "a", "n">>
    [] OTHER ->
         LET e  == Pot10(Decimales)
             t  == Fraccion(Abs(x.n) % x.d, x.d, Decimales)
             fr == t.q + (CASE 2 * t.r > x.d -> 1
                            [] 2 * t.r = x.d -> t.q % 2
                            [] OTHER -> 0)
             en == (Abs(x.n) \div x.d) + (IF fr = e THEN 1 ELSE 0)
         IN  (IF x.n < 0 THEN <<"-">> ELSE <<>>)
               \o DigitosDe(en) \o <<".">> \o Relleno(fr % e, Decimales)

\* std::stod(text): [exc |-> FALSE, v |-> double], or [exc |-> TRUE] for the
\* std::invalid_argument it throws when no conversion can be performed.
\* It converts the longest prefix that is a number.
Stod(text) ==
  LET neg == Len(text) >= 1 /\ text[1] = "-"
      p0  == IF Len(text) >= 1 /\ text[1] \in {"-", "+"} THEN 2 ELSE 1
      sg  == IF neg THEN -1 ELSE 1
      ne  == Racha(text, p0, Digitos)
      hayPunto == p0 + ne <= Len(text) /\ text[p0 + ne] = "."
      nf  == IF hayPunto THEN Racha(text, p0 + ne + 1, Digitos) ELSE 0
  IN  CASE EmpiezaCon(text, p0, <<"i", "n", "f">>) -> [exc |-> FALSE, v |-> Inf(sg)]
        [] EmpiezaCon(text, p0, <<"n", "a", "n">>) -> [exc |-> FALSE, v |-> NaN(sg)]
        [] ne = 0 /\ nf = 0 -> [exc |-> TRUE]
        [] OTHER ->
             [exc |-> FALSE,
              v   |-> Fin(ValorDigitos(sg, Trozo(text, p0, ne)) * Pot10(nf)
                            + ValorDigitos(sg, Trozo(text, p0 + ne + 1, nf)),
                          Pot10(nf))]

\* ------------------------------------------------------------------ lexer

Token(tipo, valor) == [tipo |-> tipo, valor |-> valor]

\* the text of the keywords
kInt == <<"i", "n", "t">>

kFloat == <<"f", "l", "o", "a", "t">>

kString == <<"s", "t", "r", "i", "n", "g">>

kWhile == <<"w", "h", "i", "l", "e">>

kIf == <<"i", "f">>

kElse == <<"e", "l", "s", "e">>

kWrite == <<"w", "r", "i", "t", "e">>

kRead == <<"r", "e", "a", "d">>

\* \b(w1|w2|...)\b at pos: the length of the first alternative that is there
\* and is not followed by a word character (0 when there is none)
RECURSIVE LargoPalabraClave(_, _, _)
LargoPalabraClave(input, pos, palabras) ==
  IF palabras = <<>> THEN 0
  ELSE LET w == Head(palabras)
       IN  IF /\ EmpiezaCon(input, pos, w)
              /\ (pos + Len(w) > Len(input) \/ ~EsPalabra(input[pos + Len(w)]))
           THEN Len(w)
           ELSE LargoPalabraClave(input, pos, Tail(palabras))

\* the first of the alternatives (in order) that is at pos, without \b
RECURSIVE LargoAlternativa(_, _, _)
LargoAlternativa(input, pos, alts) ==
  IF alts = <<>> THEN 0
  ELSE IF EmpiezaCon(input, pos, Head(alts)) THEN Len(Head(alts))
       ELSE LargoAlternativa(input, pos, Tail(alts))

\* \d+(\.\d+)?
LargoNumero(input, pos) ==
  LET ne == Racha(input, pos, Digitos)
      nf == IF ne > 0 /\ pos + ne <= Len(input) /\ input[pos + ne] = "."
            THEN Racha(input, pos + ne + 1, Digitos) ELSE 0
  IN  IF ne = 0 THEN 0 ELSE IF nf > 0 THEN ne + 1 + nf ELSE ne

\* "[^"]*"
LargoCadena(input, pos) ==
  IF input[pos] # "\"" THEN 0
  ELSE LET n == Racha(input, pos + 1, {input[j] : j \in 1..Len(input)} \ {"\""})
       IN  IF pos + 1 + n <= Len(input) THEN n + 2 ELSE 0

\* [a-zA-Z_][a-zA-Z0-9_]*
LargoIdentificador(input, pos) ==
  IF input[pos] \in Letras THEN Racha(input, pos, Letras \cup Digitos) ELSE 0

\* the vector `patrones`, in its order: <<length of the match at pos, tipo>>
Patrones(input, pos) ==
  << <<LargoPalabraClave(input, pos, <<kInt, kFloat, kString>>), "VARIABLE">>,
     <<LargoPalabraClave(input, pos, <<kWhile>>), "CICLO">>,
     <<LargoPalabraClave(input, pos, <<kWrite>>), "ESCRITURA">>,
     <<LargoPalabraClave(input, pos, <<kRead>>), "LECTURA">>,
     <<LargoAlternativa(input, pos, << <<">", "=">>, <<"<", "=">>, <<"=", "=">>,
                                       <<"!", "=">>, <<">">>, <<"<">> >>),
       "COMPARACION">>,
     <<LargoAlternativa(input, pos, << <<"+">>, <<"-">>, <<"/">>, <<"*">> >>),
       "ARITMETICO">>,
     <<LargoAlternativa(input, pos, << <<"=">>, <<";">> >>), "OPERADOR">>,
     <<LargoCadena(input, pos), "CADENA">>,
     <<LargoAlternativa(input, pos, << <<")">> >>), "PARENTESIS_DERECHO">>,
     <<LargoAlternativa(input, pos, << <<"(">> >>), "PARENTESIS_IZQUIERDO">>,
     <<LargoAlternativa(input, pos, << <<"]">> >>), "CORCHETE_DERECHO">>,
     <<LargoAlternativa(input, pos, << <<"[">> >>), "CORCHETE_IZQUIERDO">>,
     <<LargoAlternativa(input, pos, << <<"}">> >>), "LLAVE_DERECHA">>,
     <<LargoAlternativa(input, pos, << <<"{">> >>), "LLAVE_IZQUIERDA">>,
     <<LargoNumero(input, pos), "NUMERO">>,
     <<LargoPalabraClave(input, pos, <<kIf, kElse>>), "CONDICION">>,
     <<LargoIdentificador(input, pos), "IDENTIFICADOR">> >>

\* the first pattern of the list that matches at pos (0 when none does)
RECURSIVE PrimerPatron(_, _)
PrimerPatron(ps, k) ==
  IF k > Len(ps) THEN 0 ELSE IF ps[k][1] > 0 THEN k ELSE PrimerPatron(ps, k + 1)

\* the first position from pos on where a pattern matches, past the end when
\* none does: the `pos++` of the positions where nothing is found
Salta(input, pos) ==
  LET Halla(q) == PrimerPatron(Patrones(input, q), 1) # 0
  IN  IF \E q \in pos..Len(input) : Halla(q)
      THEN CHOOSE q \in pos..Len(input) : Halla(q) /\ \A r \in pos..(q - 1) : ~Halla(r)
      ELSE Len(input) + 1

\* the tokens from pos on, a position where a pattern matches
RECURSIVE LexicoDesde(_, _)
LexicoDesde(input, pos) ==
  IF pos > Len(input) THEN <<>>
  ELSE LET ps == Patrones(input, pos)
           k  == PrimerPatron(ps, 1)
       IN  <<Token(ps[k][2], Trozo(input, pos, ps[k][1]))>>
             \o LexicoDesde(input, Salta(input, pos + ps[k][1]))

\* vector<Token> Lexico(const string& input)
Lexico(input) == LexicoDesde(input, Salta(input, 1))

\* ------------------------------------------------------------------ types

\* enum class DataType
DataType == {"INT", "FLOAT", "STRING", "UNKNOWN"}

\* struct Simbolo
Simbolo(nombre, tipo, valor, id) ==
  [nombre |-> nombre, tipo |-> tipo, valor |-> valor, id_contador |-> id]

stringToDataType(tipo) ==
  CASE tipo = kInt -> "INT"
    [] tipo = kFloat -> "FLOAT"
    [] tipo = kString -> "STRING"
    [] OTHER -> "UNKNOWN"

\* ^-?\d+$
EsEntero(valor) ==
  LET p0 == IF Len(valor) >= 1 /\ valor[1] = "-" THEN 2 ELSE 1
      ne == Racha(valor, p0, Digitos)
  IN  ne > 0 /\ p0 + ne - 1 = Len(valor)

\* ^-?\d+(\.\d+)?$
EsFlotante(valor) ==
  LET p0 == IF Len(valor) >= 1 /\ valor[1] = "-" THEN 2 ELSE 1
      ne == Racha(valor, p0, Digitos)
      nf == IF p0 + ne <= Len(valor) /\ valor[p0 + ne] = "."
            THEN Racha(valor, p0 + ne + 1, Digitos) ELSE 0
  IN  /\ ne > 0
      /\ \/ p0 + ne - 1 = Len(valor)
         \/ nf > 0 /\ p0 + ne + nf = Len(valor)

esValorCompatible(valor, tipo) ==
  CASE tipo = kInt -> EsEntero(valor)
    [] tipo = kFloat -> EsFlotante(valor)
    [] tipo = kString -> TRUE
    [] OTHER -> FALSE

\* the index (1-based) of the first symbol of the table named nombre, 0 if none
RECURSIVE PrimerIndice(_, _, _)
PrimerIndice(tabla, nombre, k) ==
  IF k > Len(tabla) THEN 0
  ELSE IF tabla[k].nombre = nombre THEN k ELSE PrimerIndice(tabla, nombre, k + 1)

\* bool buscarVariable(nombre, simbolo): 0 for false, else where the copy is from
buscarVariable(tabla, nombre) == PrimerIndice(tabla, nombre, 1)

\* ------------------------------------------------------------------ AST

NumberNode(val) ==
  [nodo |-> "Number",
   value |-> Stod(val).v,
   dataType |-> IF \E j \in 1..Len(val) : val[j] = "." THEN "FLOAT" ELSE "INT"]

VariableNode(name) == [nodo |-> "Variable", name |-> name]

OperatorNode(op, left, right) ==
  [nodo |-> "Operator", op |-> op, left |-> left, right |-> right]

\* what a throwing function gives: the exception's class and message
Lanza(clase, que) == [exc |-> clase, que |-> que]

\* VariableNode::getType: the first symbol of that name whose tipo is one of the
\* three type names decides
RECURSIVE TipoVariable(_, _, _)
TipoVariable(tabla, name, k) ==
  IF k > Len(tabla) THEN Lanza("runtime_error", "Variable no encontrada")
  ELSE IF tabla[k].nombre = name /\ stringToDataType(tabla[k].tipo) # "UNKNOWN"
       THEN [exc |-> "", t |-> stringToDataType(tabla[k].tipo)]
       ELSE TipoVariable(tabla, name, k + 1)

\* the rule of OperatorNode::getType over the operands' types
TipoOperacion(leftType, rightType, op) ==
  IF \/ leftType = "INT" /\ rightType = "FLOAT"
     \/ leftType = "FLOAT" /\ rightType = "INT"
  THEN [exc |-> "", t |-> "FLOAT"]
  ELSE IF leftType # rightType
       THEN Lanza("runtime_error", "no se pueden mezclar tipos diferentes")
       ELSE IF leftType = "STRING" /\ op # "+"
            THEN Lanza("runtime_error", "solo se permite la concatenacion")
            ELSE [exc |-> "", t |-> leftType]

\* Node::getType
RECURSIVE getType(_, _)
getType(node, tabla) ==
  CASE node.nodo = "Number" -> [exc |-> "", t |-> node.dataType]
    [] node.nodo = "Variable" -> TipoVariable(tabla, node.name, 1)
    [] node.nodo = "Operator" ->
         LET ConDerecho(l, r) ==
               IF r.exc # "" THEN r ELSE TipoOperacion(l.t, r.t, node.op)
             ConIzquierdo(l) ==
               IF l.exc # "" THEN l ELSE ConDerecho(l, getType(node.right, tabla))
         IN  ConIzquierdo(getType(node.left, tabla))

\* the switch of OperatorNode::evaluate
Operar(op, lval, rval) ==
  CASE op = "+" -> [exc |-> "", v |-> DSuma(lval, rval)]
    [] op = "-" -> [exc |-> "", v |-> DResta(lval, rval)]
    [] op = "*" -> [exc |-> "", v |-> DMult(lval, rval)]
    [] op = "/" -> [exc |-> "", v |-> DDiv(lval, rval)]
    [] OTHER -> Lanza("runtime_error", "Operador desconocido")

\* VariableNode::evaluate: stod of the first symbol of that name
EvaluaVariable(tabla, name) ==
  LET ConStod(c) ==
        IF c.exc THEN Lanza("invalid_argument", "stod") ELSE [exc |-> "", v |-> c.v]
      ConIndice(k) ==
        IF k = 0 THEN Lanza("runtime_error", "Variable no encontrada")
        ELSE ConStod(Stod(tabla[k].valor))
  IN  ConIndice(PrimerIndice(tabla, name, 1))

\* Node::evaluate
RECURSIVE evaluate(_, _)
evaluate(node, tabla) ==
  CASE node.nodo = "Number" -> [exc |-> "", v |-> node.value]
    [] node.nodo = "Variable" -> EvaluaVariable(tabla, node.name)
    [] node.nodo = "Operator" ->
         LET ConDerecho(l, r) ==
               IF r.exc # "" THEN r ELSE Operar(node.op, l.v, r.v)
             ConIzquierdo(l) ==
               IF l.exc # "" THEN l ELSE ConDerecho(l, evaluate(node.right, tabla))
             ConTipo(ty) ==
               IF ty.exc # "" THEN ty
               ELSE IF ty.t = "STRING"
                    THEN Lanza("runtime_error", "Las operaciones con strings")
                    ELSE ConIzquierdo(evaluate(node.left, tabla))
         IN  ConTipo(getType(node, tabla))

\* ------------------------------------------------------------------ builder

(***************************************************************************)
(* tokens[k] for a k past the end is an undefined read.  The model gives   *)
(* it the two outcomes seen in builds of the program: the run dies there,  *)
(* or the read yields bytes that equal no token kind.  The operators       *)
(* below compute the second outcome and report the read in `fuera`; the    *)
(* action that calls them chooses between the two.                         *)
(***************************************************************************)
TokenBasura == Token("?", <<>>)

Tok(tokens, k) == IF k < Len(tokens) THEN tokens[k + 1] ELSE TokenBasura

Fuera(tokens, k) == k >= Len(tokens)

\* no tree (a null unique_ptr)
Nulo == [nodo |-> "Nulo"]

\* what construirAST leaves: the exception it threw (exc = "" for a normal
\* return), the tree, the cursor, the type stack and whether it read past the
\* end of the tokens.  exc = "pila_vacia" stands for top()/pop() on an empty
\* stack, which is undefined.
Res(exc, que, node, i, pila, fuera) ==
  [exc |-> exc, que |-> que, node |-> node, i |-> i, pila |-> pila, fuera |-> fuera]

\* a type check that takes no strings
CombinaPilaSinCadenas(pila) ==
  LET n == Len(pila)
      resto == SubSeq(pila, 1, n - 2)
  IN  IF pila[n] = "STRING" \/ pila[n - 1] = "STRING"
      THEN [exc |-> "runtime_error", pila |-> resto]
      ELSE [exc |-> "",
            pila |-> Append(resto, IF pila[n] = pila[n - 1] THEN pila[n] ELSE "FLOAT")]

\* a type check that pops the two types and pushes nothing
CombinaPilaSinApilar(pila) ==
  [exc |-> "", pila |-> SubSeq(pila, 1, Len(pila) - 2)]

\* the type check of construirAST: pop right, pop left, push the combination
CombinaPila(pila) ==
  LET n == Len(pila)
      tipoDerecho == pila[n]
      tipoIzquierdo == pila[n - 1]
      resto == SubSeq(pila, 1, n - 2)
  IN  IF \/ tipoIzquierdo = "INT" /\ tipoDerecho = "FLOAT"
         \/ tipoIzquierdo = "FLOAT" /\ tipoDerecho = "INT"
      THEN [exc |-> "", pila |-> Append(resto, "FLOAT")]
      ELSE IF tipoIzquierdo = tipoDerecho
           THEN [exc |-> "", pila |-> Append(resto, tipoIzquierdo)]
           ELSE [exc |-> "runtime_error", pila |-> resto]

RECURSIVE construirAST(_, _, _, _)
RECURSIVE Factor(_, _, _, _, _)
RECURSIVE Operadores(_, _, _, _, _, _)

\* one factor: a parenthesised expression, a number or a variable; `que` is
\* the message thrown when the token is none of them
Factor(tokens, i, tabla, pila, que) ==
  LET t == Tok(tokens, i)
      TrasParentesis(r) ==
        IF r.exc # "" THEN r
        ELSE IF r.i >= Len(tokens) \/ Tok(tokens, r.i).tipo # "PARENTESIS_DERECHO"
             THEN Res("runtime_error", "Se esperaba ')'", Nulo, r.i, r.pila, r.fuera)
             ELSE [r EXCEPT !.i = r.i + 1]
      Hoja(n, ty) ==
        IF ty.exc # "" THEN Res(ty.exc, ty.que, Nulo, i, pila, FALSE)
        ELSE Res("", "", n, i + 1, Append(pila, ty.t), FALSE)
  IN  CASE t.tipo = "PARENTESIS_IZQUIERDO" ->
             TrasParentesis(construirAST(tokens, i + 1, tabla, pila))
        [] t.tipo = "NUMERO" ->
             Hoja(NumberNode(t.valor), getType(NumberNode(t.valor), tabla))
        [] t.tipo = "IDENTIFICADOR" ->
             Hoja(VariableNode(t.valor), getType(VariableNode(t.valor), tabla))
        [] OTHER -> Res("runtime_error", que, Nulo, i, pila, Fuera(tokens, i))

\* a loop that takes the whole rest of the expression as the right operand
OperadoresADerecha(tokens, i, tabla, pila, left, fuera) ==
  LET op == Tok(tokens, i).valor[1]
      TrasCombinar(r, c) ==
        IF c.exc # ""
        THEN Res(c.exc, "Tipos incompatibles", Nulo, r.i, c.pila, fuera \/ r.fuera)
        ELSE Res("", "", OperatorNode(op, left, r.node), r.i, c.pila, fuera \/ r.fuera)
      TrasOperando(r) ==
        IF r.exc # "" THEN [r EXCEPT !.fuera = fuera \/ r.fuera]
        ELSE IF Len(r.pila) < 2
             THEN Res("pila_vacia", "", Nulo, r.i, r.pila, fuera \/ r.fuera)
             ELSE TrasCombinar(r, CombinaPila(r.pila))
  IN  IF i < Len(tokens) /\ Tok(tokens, i).tipo = "ARITMETICO"
      THEN TrasOperando(construirAST(tokens, i + 1, tabla, pila))
      ELSE Res("", "", left, i, pila, fuera)

\* the while loop of construirAST: operator, right operand, type check
Operadores(tokens, i, tabla, pila, left, fuera) ==
  LET op == Tok(tokens, i).valor[1]
      TrasCombinar(r, c) ==
        IF c.exc # ""
        THEN Res(c.exc, "Tipos incompatibles", Nulo, r.i, c.pila, fuera \/ r.fuera)
        ELSE Operadores(tokens, r.i, tabla, c.pila, OperatorNode(op, left, r.node),
                        fuera \/ r.fuera)
      TrasOperando(r) ==
        IF r.exc # "" THEN [r EXCEPT !.fuera = fuera \/ r.fuera]
        ELSE IF Len(r.pila) < 2
             THEN Res("pila_vacia", "", Nulo, r.i, r.pila, fuera \/ r.fuera)
             ELSE TrasCombinar(r, CombinaPila(r.pila))
  IN  IF i < Len(tokens) /\ Tok(tokens, i).tipo = "ARITMETICO"
      THEN TrasOperando(Factor(tokens, i + 1, tabla, pila, "Operando derecho invalido"))
      ELSE Res("", "", left, i, pila, fuera)

\* unique_ptr<Node> construirAST(const vector<Token>& tokens, size_t& i)
construirAST(tokens, i, tabla, pila) ==
  LET TrasFactor(l) ==
        IF l.exc # "" THEN l
        ELSE Operadores(tokens, l.i, tabla, l.pila, l.node, l.fuera)
  IN  TrasFactor(Factor(tokens, i, tabla, pila, "Factor inesperado"))

\* ------------------------------------------------------------------ recognizers

EsPuntoYComa(tokens, i) ==
  i < Len(tokens) /\ Tok(tokens, i).tipo = "OPERADOR" /\ Tok(tokens, i).valor = <<";">>

\* "id" + to_string(idGlobalCounter)
IdContador(n) == <<"i", "d">> \o ToStringInt(n)

\* what esDeclaracionVariable, esEscritura and esLectura leave: the value
\* returned, the cursor, the symbol table, the id counter and the branch taken
Rec(ret, i, tabla, idc, motivo) ==
  [ret |-> ret, i |-> i, tabla |-> tabla, idc |-> idc, motivo |-> motivo]

\* the condition of the outer if of esDeclaracionVariable
FormaDeclaracion(tokens, i) ==
  /\ i + 3 < Len(tokens)
  /\ Tok(tokens, i).tipo = "VARIABLE"
  /\ Tok(tokens, i + 1).tipo = "IDENTIFICADOR"
  /\ Tok(tokens, i + 2).tipo = "OPERADOR" /\ Tok(tokens, i + 2).valor = <<"=">>

\* after the duplicate check: the initializer, the compatibility check, the
\* push_back, the advance of the cursor and the check of the `;`
DeclaraConValor(tokens, i, tabla, idc, tipo, nombre, valor) ==
  IF ~esValorCompatible(valor, tipo)
  THEN Rec(FALSE, i, tabla, idc, "valor_incompatible")
  ELSE LET t2 == Append(tabla, Simbolo(nombre, tipo, valor, IdContador(idc)))
       IN  IF EsPuntoYComa(tokens, i + 4)
           THEN Rec(TRUE, i + 5, t2, idc + 1, "declarada")
           ELSE Rec(FALSE, i + 4, t2, idc + 1, "sin_punto_y_coma")

\* a search that looks at the last symbol only
YaDeclaradaSoloUltimo(tabla, nombre) ==
  tabla # <<>> /\ tabla[Len(tabla)].nombre = nombre

\* the loop of esDeclaracionVariable that looks for a symbol of that name
YaDeclarada(tabla, nombre) == \E k \in 1..Len(tabla) : tabla[k].nombre = nombre

\* bool esDeclaracionVariable(const vector<Token>& tokens, size_t& i)
esDeclaracionVariable(tokens, i, tabla, idc) ==
  IF ~FormaDeclaracion(tokens, i) THEN Rec(FALSE, i, tabla, idc, "otra_forma")
  ELSE LET tipo == Tok(tokens, i).valor
           nombre == Tok(tokens, i + 1).valor
           ini == Tok(tokens, i + 3)
       IN  IF YaDeclarada(tabla, nombre)
           THEN Rec(FALSE, i, tabla, idc, "ya_declarada")
           ELSE CASE ini.tipo \in {"NUMERO", "CADENA"} ->
                       DeclaraConValor(tokens, i, tabla, idc, tipo, nombre, ini.valor)
                  [] ini.tipo = "IDENTIFICADOR" ->
                       LET k == buscarVariable(tabla, ini.valor)
                       IN  IF k = 0 THEN Rec(FALSE, i, tabla, idc, "no_declarada")
                           ELSE IF tipo # tabla[k].tipo
                                THEN Rec(FALSE, i, tabla, idc, "tipo_distinto")
                                ELSE DeclaraConValor(tokens, i, tabla, idc, tipo,
                                                     nombre, tabla[k].valor)
                  [] OTHER -> Rec(FALSE, i, tabla, idc, "valor_no_valido")

\* bool esEscritura(const vector<Token>& tokens, size_t& i)
esEscritura(tokens, i, tabla, idc) ==
  IF /\ i + 3 < Len(tokens)
     /\ Tok(tokens, i).tipo = "ESCRITURA"
     /\ Tok(tokens, i + 1).tipo = "PARENTESIS_IZQUIERDO"
     /\ Tok(tokens, i + 2).tipo \in {"IDENTIFICADOR", "NUMERO", "CADENA"}
     /\ Tok(tokens, i + 3).tipo = "PARENTESIS_DERECHO"
  THEN IF /\ Tok(tokens, i + 2).tipo = "IDENTIFICADOR"
          /\ buscarVariable(tabla, Tok(tokens, i + 2).valor) = 0
       THEN Rec(FALSE, i, tabla, idc, "no_declarada")
       ELSE Rec(TRUE, IF EsPuntoYComa(tokens, i + 4) THEN i + 5 ELSE i + 4, tabla, idc,
                "escrita")
  ELSE Rec(FALSE, i, tabla, idc, "otra_forma")

\* bool esLectura(const vector<Token>& tokens, size_t& i)
esLectura(tokens, i, tabla, idc) ==
  IF /\ i + 3 < Len(tokens)
     /\ Tok(tokens, i).tipo = "LECTURA"
     /\ Tok(tokens, i + 1).tipo = "PARENTESIS_IZQUIERDO"
     /\ Tok(tokens, i + 2).tipo = "IDENTIFICADOR"
     /\ Tok(tokens, i + 3).tipo = "PARENTESIS_DERECHO"
  THEN IF buscarVariable(tabla, Tok(tokens, i + 2).valor) = 0
       THEN Rec(FALSE, i, tabla, idc, "no_declarada")
       ELSE Rec(TRUE, IF EsPuntoYComa(tokens, i + 4) THEN i + 5 ELSE i + 4, tabla, idc,
                "leida")
  ELSE Rec(FALSE, i, tabla, idc, "otra_forma")

\* the condition of the outer if of esOperacionAritmetica, as C++ groups it:
\* (a && b) || (c && d) || e || (f && g)
FormaOperacion(tokens, i) ==
  \/ i + 3 < Len(tokens) /\ Tok(tokens, i).tipo = "IDENTIFICADOR"
  \/ /\ Tok(tokens, i).tipo = "PARENTESIS_IZQUIERDO"
     /\ Tok(tokens, i + 1).tipo = "OPERADOR"
  \/ Tok(tokens, i + 1).tipo = "PARENTESIS_IZQUIERDO"
  \/ /\ Tok(tokens, i + 1).tipo = "PARENTESIS_DERECHO"
     /\ Tok(tokens, i + 1).valor = <<"=">>

\* does evaluating that condition read tokens[i] or tokens[i + 1] past the end?
\* (the first disjunct is guarded; when it is false the others read both)
FormaOperacionLeeFuera(tokens, i) ==
  /\ ~(i + 3 < Len(tokens) /\ Tok(tokens, i).tipo = "IDENTIFICADOR")
  /\ Fuera(tokens, i + 1)

\* the loop that stores the result: the first symbol of that name
ActualizaValor(tabla, nombre, texto) ==
  LET k == PrimerIndice(tabla, nombre, 1)
  IN  IF k = 0 THEN tabla ELSE [tabla EXCEPT ![k].valor = texto]

\* what esOperacionAritmetica leaves.  fin = "" when it returns; "abortado"
\* when an exception leaves it uncaught (std::terminate); "indefinido" when it
\* read the top of an empty stack.  que: the message of the exception caught;
\* construyo: construirAST returned normally; pilaInsp: the type stack at that
\* moment; node: the tree.
RecOp(ret, i, tabla, pila, fuera, fin, motivo, que, construyo, pilaInsp, node) ==
  [ret |-> ret, i |-> i, tabla |-> tabla, pila |-> pila, fuera |-> fuera,
   fin |-> fin, motivo |-> motivo, que |-> que, construyo |-> construyo,
   pilaInsp |-> pilaInsp, node |-> node]

\* a test that lets an int expression into a float destination
TiposDistintosSalvoPromocion(tipoExpresion, tipoDestino) ==
  tipoExpresion # tipoDestino /\ ~(tipoExpresion = "INT" /\ tipoDestino = "FLOAT")

\* the test `tipoExpresion != tipoDestino` of esOperacionAritmetica
TiposDistintos(tipoExpresion, tipoDestino) == tipoExpresion # tipoDestino

\* the text stored for a result: truncated for an int destination
TextoResultado(tipoDestino, resultado, ub) ==
  IF tipoDestino = "INT" THEN ToStringInt(CastInt(resultado, ub))
  ELSE ToStringDouble(resultado)

\* from the check of the `;` on: evaluate, store, show.  b: what construirAST
\* left; pila: the type stack after the pop
EvaluaYAsigna(tokens, posInicial, b, pila, tabla, nombreVariable, tipoDestino, ub) ==
  LET Sale(ret, i, t, fin, motivo, que) ==
        RecOp(ret, i, t, pila, FALSE, fin, motivo, que, TRUE, b.pila, b.node)
      TrasMostrar(t2, m) ==
        CASE m.exc = "runtime_error" ->
               Sale(FALSE, posInicial, t2, "", "excepcion_mostrar", m.que)
          [] m.exc = "invalid_argument" ->
               Sale(FALSE, b.i + 1, t2, "abortado", "excepcion_mostrar", m.que)
          [] OTHER -> Sale(TRUE, b.i + 1, t2, "", "asignada", "")
      Almacena(t2) == TrasMostrar(t2, evaluate(b.node, t2))
      TrasEvaluar(e) ==
        CASE e.exc = "runtime_error" ->
               Sale(FALSE, posInicial, tabla, "", "excepcion_evaluar", e.que)
          [] e.exc = "invalid_argument" ->
               Sale(FALSE, b.i + 1, tabla, "abortado", "excepcion_evaluar", e.que)
          [] OTHER ->
               Almacena(ActualizaValor(tabla, nombreVariable,
                                       TextoResultado(tipoDestino, e.v, ub)))
  IN  IF ~EsPuntoYComa(tokens, b.i)
      THEN Sale(FALSE, b.i, tabla, "", "sin_punto_y_coma", "")
      ELSE TrasEvaluar(evaluate(b.node, tabla))

\* bool esOperacionAritmetica(tokens, i, root); ub is what an undefined
\* double-to-int conversion yields
esOperacionAritmetica(tokens, i, tabla, pila, ub) ==
  LET fu == FormaOperacionLeeFuera(tokens, i)
      nombreVariable == Tok(tokens, i).valor
      TrasConstruir(k, b) ==
        CASE b.exc = "runtime_error" ->
               RecOp(FALSE, i, tabla, b.pila, fu \/ b.fuera, "", "excepcion_construir",
                     b.que, FALSE, <<>>, Nulo)
          [] b.exc = "pila_vacia" \/ (b.exc = "" /\ b.pila = <<>>) ->
               RecOp(FALSE, b.i, tabla, b.pila, fu \/ b.fuera, "indefinido",
                     "pila_vacia", "", b.exc = "", b.pila, b.node)
          [] TiposDistintos(b.pila[Len(b.pila)], stringToDataType(tabla[k].tipo)) ->
               RecOp(FALSE, i, tabla, SubSeq(b.pila, 1, Len(b.pila) - 1), FALSE, "",
                     "tipo_asignacion", "", TRUE, b.pila, b.node)
          [] OTHER ->
               EvaluaYAsigna(tokens, i, b, SubSeq(b.pila, 1, Len(b.pila) - 1), tabla,
                             nombreVariable, stringToDataType(tabla[k].tipo), ub)
      ConDestino(k) ==
        IF k = 0
        THEN RecOp(FALSE, i, tabla, pila, fu, "", "no_declarada", "", FALSE, <<>>, Nulo)
        ELSE TrasConstruir(k, construirAST(tokens, i + 2, tabla, pila))
  IN  IF ~FormaOperacion(tokens, i)
      THEN RecOp(FALSE, i, tabla, pila, fu, "", "otra_forma", "", FALSE, <<>>, Nulo)
      ELSE ConDestino(buscarVariable(tabla, nombreVariable))

\* the condition of the outer if of esBloqueIf and of esBloqueWhile, after the
\* keyword: ( operand comparison operand )
FormaCondicion(tokens, i) ==
  /\ i + 6 < Len(tokens)
  /\ Tok(tokens, i + 1).tipo = "PARENTESIS_IZQUIERDO"
  /\ Tok(tokens, i + 2).tipo \in {"IDENTIFICADOR", "NUMERO"}
  /\ Tok(tokens, i + 3).tipo = "COMPARACION"
  /\ Tok(tokens, i + 4).tipo \in {"IDENTIFICADOR", "NUMERO"}
  /\ Tok(tokens, i + 5).tipo = "PARENTESIS_DERECHO"

FormaIf(tokens, i) ==
  /\ Tok(tokens, i).tipo = "CONDICION" /\ Tok(tokens, i).valor = kIf
  /\ FormaCondicion(tokens, i)

FormaWhile(tokens, i) ==
  /\ Tok(tokens, i).tipo = "CICLO" /\ Tok(tokens, i).valor = kWhile
  /\ FormaCondicion(tokens, i)

\* esBloqueIf's lookup of an operand of the condition: FALSE for the
\* "no declarada" error
OperandoDeclarado(tokens, k, tabla) ==
  \/ Tok(tokens, k).tipo = "NUMERO"
  \/ buscarVariable(tabla, Tok(tokens, k).valor) # 0

EsLlaveIzquierda(tokens, i) ==
  i < Len(tokens) /\ Tok(tokens, i).tipo = "LLAVE_IZQUIERDA"

EsLlaveDerecha(tokens, i) ==
  i < Len(tokens) /\ Tok(tokens, i).tipo = "LLAVE_DERECHA"

EsElse(tokens, i) ==
  i < Len(tokens) /\ Tok(tokens, i).tipo = "CONDICION" /\ Tok(tokens, i).valor = kElse

\* ------------------------------------------------------------------ state

VARIABLES
  codigo,            \* main's codigo_completo: the source text
  tokens,            \* main's tokens = Lexico(codigo_completo)
  i,                 \* the cursor of analisisSintactico, shared by reference
  tablaSimbolos,     \* the global symbol table
  idGlobalCounter,   \* the global id counter
  pilaSemantica,     \* the global type stack
  marcos,            \* the loops in progress: the driver's, and one per open block
  fase,              \* "lexico", "sintactico", "fin"
  valido,            \* "" while running; "si"/"no": the value analisisSintactico
                     \* returns; "abortado": the run died; "indefinido"
  ult,               \* the recognizer call that returned last
  traza              \* the recognizer calls that returned, in order

vars ==
  <<codigo, tokens, i, tablaSimbolos, idGlobalCounter, pilaSemantica, marcos, fase,
    valido, ult, traza>>

\* a loop in progress.  f: "driver" (analisisSintactico) or "bloque"
\* (analizarBloque); de: the caller of analizarBloque, "if" (the if body),
\* "else" (the else body) or "while"; paso: 0 at the loop's test, 1..6 the
\* recognizer to try next, 7 when analizarBloque returns false, 8 when it
\* returns true; ent, tabla0, idc0: the cursor, table and counter when the
\* calling esBloqueIf/esBloqueWhile was entered
Marco(f, de, paso, ent, tabla0, idc0) ==
  [f |-> f, de |-> de, paso |-> paso, ent |-> ent, tabla0 |-> tabla0, idc0 |-> idc0]

Cima == marcos[Len(marcos)]

EnPaso(p) == fase = "sintactico" /\ Cima.paso = p

\* the top loop moves to step p
ConPaso(p) == [marcos EXCEPT ![Len(marcos)].paso = p]

\* the top loop after a recognizer it called at step p returned ret
TrasLlamada(p, ret) == ConPaso(IF ret THEN 0 ELSE p + 1)

\* a block's loop is popped and the loop that called esBloqueIf/esBloqueWhile
\* at step p goes on
TrasBloque(p, ret) ==
  LET m == SubSeq(marcos, 1, Len(marcos) - 1)
  IN  [m EXCEPT ![Len(m)].paso = IF ret THEN 0 ELSE p + 1]

\* the record of a recognizer call that returned.  op holds what
\* esOperacionAritmetica leaves (Nulo for the other recognizers)
Ult(rec, ent, sal, ret, motivo, tabla0, idc0, pila0, op) ==
  [rec |-> rec, ent |-> ent, sal |-> sal, ret |-> ret, motivo |-> motivo,
   tabla0 |-> tabla0, idc0 |-> idc0, pila0 |-> pila0, nivel |-> Len(marcos),
   op |-> op]

\* an entry of traza: the recognizer, the cursor when it was called and when it
\* returned, the value returned, and how many loops were open
Evento(u) ==
  [rec |-> u.rec, ent |-> u.ent, sal |-> u.sal, ret |-> u.ret, motivo |-> u.motivo,
   nivel |-> u.nivel]

\* ------------------------------------------------------------------ actions

\* main: tokens = Lexico(codigo_completo), then analisisSintactico starts
PasoLexico ==
  /\ fase = "lexico"
  /\ tokens' = Lexico(codigo)
  /\ fase' = "sintactico"
  /\ marcos' = <<Marco("driver", "", 0, 0, <<>>, 1)>>
  /\ UNCHANGED <<codigo, i, tablaSimbolos, idGlobalCounter, pilaSemantica, valido, ult,
                 traza>>

\* the while test of analisisSintactico, and limpiarPilaSemantica
BucleDriver ==
  /\ EnPaso(0) /\ Cima.f = "driver"
  /\ IF i < Len(tokens)
     THEN /\ pilaSemantica' = <<>>
          /\ marcos' = ConPaso(1)
          /\ UNCHANGED <<fase, valido>>
     ELSE /\ valido' = "si"
          /\ fase' = "fin"
          /\ UNCHANGED <<pilaSemantica, marcos>>
  /\ UNCHANGED <<codigo, tokens, i, tablaSimbolos, idGlobalCounter, ult, traza>>

\* the while test of analizarBloque
BucleBloque ==
  /\ EnPaso(0) /\ Cima.f = "bloque"
  /\ marcos' = ConPaso(IF i < Len(tokens) /\ Tok(tokens, i).tipo # "LLAVE_DERECHA"
                       THEN 1 ELSE 8)
  /\ UNCHANGED <<codigo, tokens, i, tablaSimbolos, idGlobalCounter, pilaSemantica, fase,
                 valido, ult, traza>>

\* a call of esDeclaracionVariable, esEscritura or esLectura at step p
LlamaSimple(p, rec, r) ==
  /\ EnPaso(p)
  /\ i' = r.i
  /\ tablaSimbolos' = r.tabla
  /\ idGlobalCounter' = r.idc
  /\ marcos' = TrasLlamada(p, r.ret)
  /\ ult' = Ult(rec, i, r.i, r.ret, r.motivo, tablaSimbolos, idGlobalCounter,
                pilaSemantica, Nulo)
  /\ traza' = Append(traza, Evento(ult'))
  /\ UNCHANGED <<codigo, tokens, pilaSemantica, fase, valido>>

LlamaDeclaracion ==
  LlamaSimple(1, "declaracion",
              esDeclaracionVariable(tokens, i, tablaSimbolos, idGlobalCounter))

LlamaEscritura ==
  LlamaSimple(2, "escritura", esEscritura(tokens, i, tablaSimbolos, idGlobalCounter))

LlamaLectura ==
  LlamaSimple(3, "lectura", esLectura(tokens, i, tablaSimbolos, idGlobalCounter))

\* esBloqueIf/esBloqueWhile return ret at cursor sal to the loop that called
\* them at step p, without having opened a block
RetornaSinBloque(p, rec, sal, ret, motivo) ==
  /\ i' = sal
  /\ marcos' = TrasLlamada(p, ret)
  /\ ult' = Ult(rec, i, sal, ret, motivo, tablaSimbolos, idGlobalCounter,
                pilaSemantica, Nulo)
  /\ traza' = Append(traza, Evento(ult'))

\* does the comparison of the header at the cursor hold?
CondicionCierta ==
  LET Valor(k) ==
        IF Tok(tokens, k).tipo = "NUMERO" THEN Stod(Tok(tokens, k).valor).v
        ELSE Stod(tablaSimbolos[buscarVariable(tablaSimbolos,
                                               Tok(tokens, k).valor)].valor).v
      dif == Valor(i + 2).n * Valor(i + 4).d - Valor(i + 4).n * Valor(i + 2).d
      op == Tok(tokens, i + 3).valor
  IN  CASE op = <<"<">> -> dif < 0
        [] op = <<">">> -> dif > 0
        [] op = <<"<", "=">> -> dif <= 0
        [] op = <<">", "=">> -> dif >= 0
        [] op = <<"=", "=">> -> dif = 0
        [] OTHER -> dif # 0

\* the position of the first `}` from position k on
RECURSIVE PrimeraLlaveDerecha(_)
PrimeraLlaveDerecha(k) ==
  IF k >= Len(tokens) \/ Tok(tokens, k).tipo = "LLAVE_DERECHA" THEN k
  ELSE PrimeraLlaveDerecha(k + 1)

\* an if that runs its body: when the comparison fails the body is skipped
AbreBloqueSiCumple(de) ==
  IF de = "if" /\ ~CondicionCierta
  THEN /\ i' = PrimeraLlaveDerecha(i + 7)
       /\ marcos' = Append(marcos,
                           Marco("bloque", de, 8, i, tablaSimbolos, idGlobalCounter))
       /\ UNCHANGED <<ult, traza>>
  ELSE /\ i' = i + 7
       /\ marcos' = Append(marcos,
                           Marco("bloque", de, 0, i, tablaSimbolos, idGlobalCounter))
       /\ UNCHANGED <<ult, traza>>

\* esBloqueIf/esBloqueWhile call analizarBloque for the body after the `{`
AbreBloque(de) ==
  /\ i' = i + 7
  /\ marcos' = Append(marcos, Marco("bloque", de, 0, i, tablaSimbolos, idGlobalCounter))
  /\ UNCHANGED <<ult, traza>>

\* esBloqueIf, up to its first call of analizarBloque
LlamaIf ==
  /\ EnPaso(4)
  /\ CASE ~FormaIf(tokens, i) -> RetornaSinBloque(4, "if", i, FALSE, "otra_forma")
       [] FormaIf(tokens, i)
          /\ ~(/\ OperandoDeclarado(tokens, i + 2, tablaSimbolos)
               /\ OperandoDeclarado(tokens, i + 4, tablaSimbolos)) ->
            RetornaSinBloque(4, "if", i, FALSE, "no_declarada")
       [] OTHER ->
            IF EsLlaveIzquierda(tokens, i + 6) THEN AbreBloque("if")
            ELSE RetornaSinBloque(4, "if", i + 6, FALSE, "sin_llave")
  /\ UNCHANGED <<codigo, tokens, tablaSimbolos, idGlobalCounter, pilaSemantica, fase,
                 valido>>

\* esBloqueWhile, up to its call of analizarBloque
LlamaWhile ==
  /\ EnPaso(5)
  /\ IF ~FormaWhile(tokens, i)
     THEN RetornaSinBloque(5, "while", i, FALSE, "otra_forma")
     ELSE IF EsLlaveIzquierda(tokens, i + 6) THEN AbreBloque("while")
          ELSE RetornaSinBloque(5, "while", i + 6, FALSE, "sin_llave")
  /\ UNCHANGED <<codigo, tokens, tablaSimbolos, idGlobalCounter, pilaSemantica, fase,
                 valido>>

\* esBloqueIf/esBloqueWhile return ret at cursor sal after a block: the
\* block's loop is popped
RetornaTrasBloque(p, rec, sal, ret, motivo) ==
  /\ i' = sal
  /\ marcos' = TrasBloque(p, ret)
  /\ ult' = [Ult(rec, Cima.ent, sal, ret, motivo, Cima.tabla0, Cima.idc0,
                 pilaSemantica, Nulo) EXCEPT !.nivel = Len(marcos) - 1]
  /\ traza' = Append(traza, Evento(ult'))

\* esBloqueIf after analizarBloque returned for the if body
RetornoBloqueIf ==
  /\ fase = "sintactico" /\ Cima.f = "bloque" /\ Cima.de = "if"
  /\ Cima.paso \in {7, 8}
  /\ CASE Cima.paso = 7 -> RetornaTrasBloque(4, "if", i, FALSE, "bloque_falla")
       [] Cima.paso = 8 /\ ~EsLlaveDerecha(tokens, i) ->
            RetornaTrasBloque(4, "if", i, FALSE, "sin_llave_derecha")
       [] Cima.paso = 8 /\ EsLlaveDerecha(tokens, i) /\ ~EsElse(tokens, i + 1) ->
            RetornaTrasBloque(4, "if", i + 1, TRUE, "if_sin_else")
       [] OTHER ->
            IF EsLlaveIzquierda(tokens, i + 2)
            THEN /\ i' = i + 3
                 /\ marcos' = [marcos EXCEPT ![Len(marcos)].de = "else",
                                             ![Len(marcos)].paso = 0]
                 /\ UNCHANGED <<ult, traza>>
            ELSE RetornaTrasBloque(4, "if", i + 2, FALSE, "else_sin_llave")
  /\ UNCHANGED <<codigo, tokens, tablaSimbolos, idGlobalCounter, pilaSemantica, fase,
                 valido>>

\* esBloqueIf after analizarBloque returned for the else body
RetornoBloqueElse ==
  /\ fase = "sintactico" /\ Cima.f = "bloque" /\ Cima.de = "else"
  /\ Cima.paso \in {7, 8}
  /\ CASE Cima.paso = 7 -> RetornaTrasBloque(4, "if", i, FALSE, "bloque_falla")
       [] Cima.paso = 8 /\ EsLlaveDerecha(tokens, i) ->
            RetornaTrasBloque(4, "if", i + 1, TRUE, "if_con_else")
       [] OTHER -> RetornaTrasBloque(4, "if", i, TRUE, "else_sin_llave_derecha")
  /\ UNCHANGED <<codigo, tokens, tablaSimbolos, idGlobalCounter, pilaSemantica, fase,
                 valido>>

\* esBloqueWhile after analizarBloque returned
RetornoBloqueWhile ==
  /\ fase = "sintactico" /\ Cima.f = "bloque" /\ Cima.de = "while"
  /\ Cima.paso \in {7, 8}
  /\ CASE Cima.paso = 7 -> RetornaTrasBloque(5, "while", i, FALSE, "bloque_falla")
       [] Cima.paso = 8 /\ EsLlaveDerecha(tokens, i) ->
            RetornaTrasBloque(5, "while", i + 1, TRUE, "while")
       [] OTHER -> RetornaTrasBloque(5, "while", i, FALSE, "sin_llave_derecha")
  /\ UNCHANGED <<codigo, tokens, tablaSimbolos, idGlobalCounter, pilaSemantica, fase,
                 valido>>

\* what an undefined conversion of a double to int may yield
ValoresIndefinidos == {IntMin, 0}

\* esOperacionAritmetica left r; fin: how the run ended there, "" if it goes on
TrasOperacion(r, fin) ==
  /\ ult' = Ult("operacion", i, r.i, r.ret, r.motivo, tablaSimbolos, idGlobalCounter,
                pilaSemantica, r)
  /\ traza' = Append(traza, Evento(ult'))
  /\ IF fin # ""
     THEN /\ valido' = fin
          /\ fase' = "fin"
          /\ tablaSimbolos' = IF fin = r.fin THEN r.tabla ELSE tablaSimbolos
          /\ UNCHANGED <<i, pilaSemantica, marcos>>
     ELSE /\ i' = r.i
          /\ tablaSimbolos' = r.tabla
          /\ pilaSemantica' = r.pila
          /\ IF r.ret \/ Cima.f = "bloque"
             THEN /\ marcos' = TrasLlamada(6, r.ret)
                  /\ UNCHANGED <<fase, valido>>
             ELSE /\ valido' = "no"
                  /\ fase' = "fin"
                  /\ UNCHANGED marcos

\* a call of esOperacionAritmetica, the last recognizer of both loops: when it
\* returns false the loop returns false.  caida: a read past the end of the
\* tokens ends the run
LlamaOperacion ==
  /\ EnPaso(6)
  /\ \E ub \in ValoresIndefinidos, caida \in BOOLEAN :
       LET Con(r) ==
             /\ caida => r.fuera
             /\ TrasOperacion(r, IF caida THEN "abortado" ELSE r.fin)
       IN  Con(esOperacionAritmetica(tokens, i, tablaSimbolos, pilaSemantica, ub))
  /\ UNCHANGED <<codigo, tokens, idGlobalCounter>>

Next ==
  \/ PasoLexico
  \/ BucleDriver
  \/ BucleBloque
  \/ LlamaDeclaracion
  \/ LlamaEscritura
  \/ LlamaLectura
  \/ LlamaIf
  \/ LlamaWhile
  \/ LlamaOperacion
  \/ RetornoBloqueIf
  \/ RetornoBloqueElse
  \/ RetornoBloqueWhile

\* ------------------------------------------------------------------ inputs

\* main's reading loop: every non-empty line of codigo.txt, followed by a space
RECURSIVE CodigoCompleto(_)
CodigoCompleto(lineas) ==
  IF lineas = <<>> THEN <<>>
  ELSE (IF Head(lineas) = <<>> THEN <<>> ELSE Head(lineas) \o <<" ">>)
         \o CodigoCompleto(Tail(lineas))

\* the lines the programs analysed are made of
\* int x=5;
lIntX ==
  <<"i", "n", "t", " ", "x", "=", "5", ";">>

\* int y=3;
lIntY ==
  <<"i", "n", "t", " ", "y", "=", "3", ";">>

\* float f = 2.5;
lFloatF ==
  <<"f", "l", "o", "a", "t", " ", "f", " ", "=", " ", "2", ".", "5", ";">>

\* string s = "a";
lStringS ==
  <<"s", "t", "r", "i", "n", "g", " ", "s", " ", "=", " ", "\"", "a", "\"", ";">>

\* string t = "b";
lStringT ==
  <<"s", "t", "r", "i", "n", "g", " ", "t", " ", "=", " ", "\"", "b", "\"", ";">>

\* int z = 0;
lIntZ ==
  <<"i", "n", "t", " ", "z", " ", "=", " ", "0", ";">>

\* int z = x + y * x;
lIntZExpr ==
  <<"i", "n", "t", " ", "z", " ", "=", " ", "x", " ", "+", " ", "y", " ", "*", " ",
    "x", ";">>

\* int x = 1;
lIntXOtraVez ==
  <<"i", "n", "t", " ", "x", " ", "=", " ", "1", ";">>

\* int z = u;
lIntZDeU ==
  <<"i", "n", "t", " ", "z", " ", "=", " ", "u", ";">>

\* int z = x;
lIntZDeX ==
  <<"i", "n", "t", " ", "z", " ", "=", " ", "x", ";">>

\* int z = 1
lIntZSinFin ==
  <<"i", "n", "t", " ", "z", " ", "=", " ", "1">>

\* int z = -5;
lIntNegativo ==
  <<"i", "n", "t", " ", "z", " ", "=", " ", "-", "5", ";">>

\* write(x);
lWriteX ==
  <<"w", "r", "i", "t", "e", "(", "x", ")", ";">>

\* write(u);
lWriteU ==
  <<"w", "r", "i", "t", "e", "(", "u", ")", ";">>

\* read(x);
lReadX ==
  <<"r", "e", "a", "d", "(", "x", ")", ";">>

\* read(u);
lReadU ==
  <<"r", "e", "a", "d", "(", "u", ")", ";">>

\* if (x < 3) {
lIfX ==
  <<"i", "f", " ", "(", "x", " ", "<", " ", "3", ")", " ", "{">>

\* if (x > 3) {
lIfXV ==
  <<"i", "f", " ", "(", "x", " ", ">", " ", "3", ")", " ", "{">>

\* if (x < u) {
lIfU ==
  <<"i", "f", " ", "(", "x", " ", "<", " ", "u", ")", " ", "{">>

\* if (x < 3)
lIfSinLlave ==
  <<"i", "f", " ", "(", "x", " ", "<", " ", "3", ")">>

\* }
lCierra ==
  <<"}">>

\* } else {
lElse ==
  <<"}", " ", "e", "l", "s", "e", " ", "{">>

\* } else
lElseSinLlave ==
  <<"}", " ", "e", "l", "s", "e">>

\* while (x < 7) {
lWhileX ==
  <<"w", "h", "i", "l", "e", " ", "(", "x", " ", "<", " ", "7", ")", " ", "{">>

\* while (u < 3) {
lWhileU ==
  <<"w", "h", "i", "l", "e", " ", "(", "u", " ", "<", " ", "3", ")", " ", "{">>

\* while (x < 7)
lWhileSinLlave ==
  <<"w", "h", "i", "l", "e", " ", "(", "x", " ", "<", " ", "7", ")">>

\* z = x + y * x;
lZExpr ==
  <<"z", " ", "=", " ", "x", " ", "+", " ", "y", " ", "*", " ", "x", ";">>

\* x = x + 1;
lXMas1 ==
  <<"x", " ", "=", " ", "x", " ", "+", " ", "1", ";">>

\* x = u + 1;
lXDeU ==
  <<"x", " ", "=", " ", "u", " ", "+", " ", "1", ";">>

\* u = 1;
lUDe1 ==
  <<"u", " ", "=", " ", "1", ";">>

\* x = f * 2;
lXDeF ==
  <<"x", " ", "=", " ", "f", " ", "*", " ", "2", ";">>

\* f = x + 1;
lFDeX ==
  <<"f", " ", "=", " ", "x", " ", "+", " ", "1", ";">>

\* f = f + x;
lFDeFX ==
  <<"f", " ", "=", " ", "f", " ", "+", " ", "x", ";">>

\* s = s + t;
lSMasT ==
  <<"s", " ", "=", " ", "s", " ", "+", " ", "t", ";">>

\* s = t;
lSDeT ==
  <<"s", " ", "=", " ", "t", ";">>

\* x = 2
lXSinFin ==
  <<"x", " ", "=", " ", "2">>

\* x = (1 + 2;
lXSinParen ==
  <<"x", " ", "=", " ", "(", "1", " ", "+", " ", "2", ";">>

\* x = 1 + ;
lXSinOperando ==
  <<"x", " ", "=", " ", "1", " ", "+", " ", ";">>

\* x = x + s;
lXMasS ==
  <<"x", " ", "=", " ", "x", " ", "+", " ", "s", ";">>

\* x = 2 * (x - 7);
lXParen ==
  <<"x", " ", "=", " ", "2", " ", "*", " ", "(", "x", " ", "-", " ", "7", ")", ";">>

\* x = x / 0;
lXEntre0 ==
  <<"x", " ", "=", " ", "x", " ", "/", " ", "0", ";">>

\* x + 3;
lSinIgual ==
  <<"x", " ", "+", " ", "3", ";">>

\* x = 1 +
lXTrunca ==
  <<"x", " ", "=", " ", "1", " ", "+">>

\* int x=2;
lIntX2 ==
  <<"i", "n", "t", " ", "x", "=", "2", ";">>

\* float f = 0.5;
lFloatMedio ==
  <<"f", "l", "o", "a", "t", " ", "f", " ", "=", " ", "0", ".", "5", ";">>

\* z = 7 / 2;
lZ7Entre2 ==
  <<"z", " ", "=", " ", "7", " ", "/", " ", "2", ";">>

\* z = 7 / 2 * 2;
lZ7Entre2Por2 ==
  <<"z", " ", "=", " ", "7", " ", "/", " ", "2", " ", "*", " ", "2", ";">>

\* z = 1 - 8 / 2;
lZ1Menos8Entre2 ==
  <<"z", " ", "=", " ", "1", " ", "-", " ", "8", " ", "/", " ", "2", ";">>

\* s = s - t;
lSMenosT ==
  <<"s", " ", "=", " ", "s", " ", "-", " ", "t", ";">>

\* x ; 3;
lSinIgualPuntoYComa ==
  <<"x", " ", ";", " ", "3", ";">>

\* all the sequences of at most n elements of S
Secuencias(S, n) == UNION {[1..k -> S] : k \in 0..n}

\* a program that takes every path of the two loops
Nucleo ==
  <<lIntX, lReadX, lWriteX, lIfX, lXMas1, lElse, lXMas1, lCierra, lWhileX, lXMas1,
    lCierra>>

\* programs written out
Nombrados ==
  {Nucleo,
   <<lIntNegativo>>,
   <<lIntX, lIntY, lIntZExpr>>,
   <<lIntX, lIntY, lIntZ, lZExpr>>}

\* the declarations most programs start with
Preludio == <<lIntX, lFloatF, lStringS, lStringT>>

\* the headers that open a block around the statement
Aperturas == {lIfX, lIfXV, lWhileX}

\* the most blocks open around the statement
MaxProf == 1

\* the statement: every form, well formed and not
Sentencias ==
  {<<>>, lIntZ, lIntXOtraVez, lIntZDeU, lIntZDeX, lIntZSinFin, lIntNegativo,
   lWriteX, lWriteU, lReadX, lReadU,
   lIfU, lIfSinLlave, lWhileU, lWhileSinLlave, lCierra, lElse, lElseSinLlave,
   lXMas1, lXDeU, lUDe1, lXDeF, lFDeX, lFDeFX, lSMasT, lSDeT, lXSinFin, lXSinParen,
   lXSinOperando, lXMasS, lXParen, lXEntre0, lSinIgual, lXTrunca, lSMenosT,
   lSinIgualPuntoYComa}

\* what follows the statement
Colas ==
  {<<>>, <<lWriteX>>, <<lXMas1>>, <<lCierra>>, <<lCierra, lXMas1>>,
   <<lXMas1, lCierra>>, <<lElse, lXMas1, lCierra>>, <<lCierra, lCierra>>}

Programas ==
  Nombrados \cup
  {Preludio \o c \o <<s>> \o q :
     c \in Secuencias(Aperturas, MaxProf), s \in Sentencias, q \in Colas}

InitCon(P) ==
  /\ codigo \in {CodigoCompleto(p) : p \in P}
  /\ tokens = <<>>
  /\ i = 0
  /\ tablaSimbolos = <<>>
  /\ idGlobalCounter = 1
  /\ pilaSemantica = <<>>
  /\ marcos = <<>>
  /\ fase = "lexico"
  /\ valido = ""
  /\ ult = Ult("", 0, 0, FALSE, "", <<>>, 1, <<>>, Nulo)
  /\ traza = <<>>

Init == InitCon(Programas)

Spec == Init /\ [][Next]_vars

\* ---- declarations `T z = v;` for every type and initializer text

\* the most digits before the point
MaxCifras == 1

CifrasIniciales == {"0", "5"}

Enteros == UNION {[1..k -> CifrasIniciales] : k \in 1..MaxCifras}

\* the initializer texts: numbers with and without sign and decimals, strings
Iniciales ==
  {g \o e \o d : g \in {<<>>, <<"-">>}, e \in Enteros, d \in {<<>>, <<".", "5">>}}
    \cup {<<"\"", "a", "\"">>, <<"\"", "\"">>}

TiposDeclarables == {kInt, kFloat, kString}

\* the text `T z = v;`
Declaracion(tipo, v) == tipo \o <<" ", "z", " ", "=", " ">> \o v \o <<";">>

ProgramasDeclaracion ==
  {Nucleo} \cup {<<Declaracion(tipo, v)>> : tipo \in TiposDeclarables, v \in Iniciales}

InitDecl == InitCon(ProgramasDeclaracion)

SpecDecl == InitDecl /\ [][Next]_vars

\* ---- assignments `d = t op t op ... t;` without parentheses

\* the most operators of an assignment
MaxOps == 2

OperadoresBinarios == {"+", "-", "*", "/"}

\* the operands an int destination and a float destination take, x being 2
\* and f being 0.5
TerminosInt == {<<"x">>, <<"4">>, <<"5">>}
TerminosFloat == {<<"f">>, <<"2">>}

\* the operands that are powers of two.  Only they divide a result that another
\* operation takes, so that every double of the assignments below is the
\* exact quotient, as the fractions of this model are.
Divisores == {<<"x">>, <<"f">>, <<"2">>, <<"4">>}

\* an operator and its right operand
Aplicaciones(T) ==
  {p \in OperadoresBinarios \X T : p[1] = "/" => p[2] \in Divisores}

\* the texts `t op t ... t` of exactly k operators over the operands T
RECURSIVE Cadenas(_, _)
Cadenas(T, k) ==
  IF k = 0 THEN T
  ELSE {c \o <<" ", p[1], " ">> \o p[2] : c \in Cadenas(T, k - 1), p \in Aplicaciones(T)}

\* the texts `t op (t op t)`
Agrupadas(T) ==
  {t1 \o <<" ", o1, " ", "(">> \o t2 \o <<" ", p[1], " ">> \o p[2] \o <<")">> :
     t1 \in T, o1 \in OperadoresBinarios, t2 \in T, p \in Aplicaciones(T)}

\* the text `d = e;`
Asignacion(d, e) == <<d, " ", "=", " ">> \o e \o <<";">>

ProgramasExpresion ==
  {Nucleo} \cup
  {<<lIntX2, lFloatMedio, Asignacion("x", e)>> :
     e \in UNION {Cadenas(TerminosInt, k) : k \in 0..MaxOps}} \cup
  {<<lIntX2, lFloatMedio, Asignacion("x", e)>> : e \in Agrupadas(TerminosInt)} \cup
  {<<lIntX2, lFloatMedio, Asignacion("f", e)>> :
     e \in UNION {Cadenas(TerminosFloat, k) : k \in 0..MaxOps}} \cup
  {<<lIntZ, a>> : a \in {lZ7Entre2, lZ7Entre2Por2, lZ1Menos8Entre2}}

InitExpr == InitCon(ProgramasExpresion)

SpecExpr == InitExpr /\ [][Next]_vars

\* ------------------------------------------------------------------ properties

Terminado == fase = "fin"

\* is there a symbol named nombre in the table t?
EnTabla(t, nombre) == \E k \in 1..Len(t) : t[k].nombre = nombre

\* the first symbol named nombre of the table t
SimboloDe(t, nombre) ==
  t[CHOOSE k \in 1..Len(t) :
      t[k].nombre = nombre /\ \A j \in 1..(k - 1) : t[j].nombre # nombre]

\* the position of the first `;` from position a on (past the end if none)
RECURSIVE PosPuntoYComa(_)
PosPuntoYComa(a) ==
  IF a >= Len(tokens) \/ EsPuntoYComa(tokens, a) THEN a ELSE PosPuntoYComa(a + 1)

\* the text of the tokens at positions a..(b - 1)
RECURSIVE TextoEntre(_, _)
TextoEntre(a, b) ==
  IF a >= b THEN <<>> ELSE Tok(tokens, a).valor \o TextoEntre(a + 1, b)

\* at position e starts a statement `T x = v;`
SentenciaDeclaracion(e) ==
  /\ Tok(tokens, e).tipo = "VARIABLE"
  /\ Tok(tokens, e + 1).tipo = "IDENTIFICADOR"
  /\ Tok(tokens, e + 2).valor = <<"=">>
  /\ PosPuntoYComa(e + 3) > e + 3
  /\ PosPuntoYComa(e + 3) < Len(tokens)

\* the initializer text v of the statement `T x = v;` at e
TextoInicial(e) == TextoEntre(e + 3, PosPuntoYComa(e + 3))

\* C1 as stated: a declaration `T x = v;` of a name not yet declared, whose
\* initializer text v satisfies T's value-compatibility rule (a negative
\* literal included), succeeds, and the table then holds x with type T and
\* value v.
C1_CompatibleDeclarationSucceeds ==
  (/\ ult.rec = "declaracion"
   /\ SentenciaDeclaracion(ult.ent)
   /\ ~EnTabla(ult.tabla0, Tok(tokens, ult.ent + 1).valor)
   /\ esValorCompatible(TextoInicial(ult.ent), Tok(tokens, ult.ent).valor))
  => /\ ult.ret
     /\ EnTabla(tablaSimbolos, Tok(tokens, ult.ent + 1).valor)
     /\ SimboloDe(tablaSimbolos, Tok(tokens, ult.ent + 1).valor).tipo
          = Tok(tokens, ult.ent).valor
     /\ SimboloDe(tablaSimbolos, Tok(tokens, ult.ent + 1).valor).valor
          = TextoInicial(ult.ent)

\* at position e starts `T x =` and x is in the table t
Redeclara(e, t) ==
  /\ e + 3 < Len(tokens)
  /\ Tok(tokens, e).tipo = "VARIABLE"
  /\ Tok(tokens, e + 1).tipo = "IDENTIFICADOR"
  /\ Tok(tokens, e + 2).valor = <<"=">>
  /\ EnTabla(t, Tok(tokens, e + 1).valor)

HuboRedeclaracion ==
  \E k \in 1..Len(traza) :
    traza[k].rec = "declaracion" /\ traza[k].motivo = "ya_declarada"

\* C2: the declaration of a name that is already in the table returns false
\* and leaves the cursor, the table (length and every entry) and the id
\* counter as they were; from then on nothing changes them, and the run ends
\* with the verdict invalid.
C2_RedeclarationFails ==
  /\ ult.rec = "declaracion" =>
       (ult.motivo = "ya_declarada" <=> Redeclara(ult.ent, ult.tabla0))
  /\ (ult.rec = "declaracion" /\ Redeclara(ult.ent, ult.tabla0)) =>
       ~ult.ret /\ ult.sal = ult.ent
  /\ HuboRedeclaracion =>
       /\ tablaSimbolos = ult.tabla0
       /\ idGlobalCounter = ult.idc0
       /\ Terminado => valido = "no"

\* a run that met a redeclaration has ended
C2_Witness ==
  /\ Terminado
  /\ HuboRedeclaracion
  /\ Len(tablaSimbolos) = Len(Preludio)
  /\ \E k \in 1..Len(traza) : traza[k].motivo = "ya_declarada" /\ traza[k].nivel > 1

P3 == CodigoCompleto(<<lIntX, lIntY, lIntZExpr>>)

P3Asignacion == CodigoCompleto(<<lIntX, lIntY, lIntZ, lZExpr>>)

NoDeclarado(e, t) ==
  /\ e < Len(tokens)
  /\ Tok(tokens, e).tipo = "IDENTIFICADOR"
  /\ ~EnTabla(t, Tok(tokens, e).valor)

\* the statement at position e, of the form the recognizer rec takes, refers
\* to an identifier that the table t does not hold
ReferenciaNoDeclarada(rec, e, t) ==
  CASE rec = "escritura" ->
         /\ Tok(tokens, e).tipo = "ESCRITURA"
         /\ Tok(tokens, e + 1).tipo = "PARENTESIS_IZQUIERDO"
         /\ Tok(tokens, e + 3).tipo = "PARENTESIS_DERECHO"
         /\ NoDeclarado(e + 2, t)
    [] rec = "lectura" ->
         /\ Tok(tokens, e).tipo = "LECTURA"
         /\ Tok(tokens, e + 1).tipo = "PARENTESIS_IZQUIERDO"
         /\ Tok(tokens, e + 3).tipo = "PARENTESIS_DERECHO"
         /\ NoDeclarado(e + 2, t)
    [] rec = "if" ->
         FormaIf(tokens, e) /\ (NoDeclarado(e + 2, t) \/ NoDeclarado(e + 4, t))
    [] rec = "while" ->
         FormaWhile(tokens, e) /\ (NoDeclarado(e + 2, t) \/ NoDeclarado(e + 4, t))
    [] rec = "declaracion" ->
         FormaDeclaracion(tokens, e) /\ NoDeclarado(e + 3, t)
    [] rec = "operacion" ->
         /\ Tok(tokens, e).tipo = "IDENTIFICADOR"
         /\ Tok(tokens, e + 1).valor = <<"=">>
         /\ PosPuntoYComa(e + 2) < Len(tokens)
         /\ \E a \in e..PosPuntoYComa(e + 2) : NoDeclarado(a, t)
    [] OTHER -> FALSE

\* C4 as stated: a statement of any form that refers to an identifier not in
\* the table (a write or read argument, an initializer, the destination or an
\* operand of an assignment, an operand of an if or while condition) is not
\* accepted and leaves the table as it was, and the run does not end valid.
C4_UndeclaredReferenceFails ==
  /\ ReferenciaNoDeclarada(ult.rec, ult.ent, ult.tabla0) =>
       ~ult.ret /\ tablaSimbolos = ult.tabla0
  /\ \A k \in 1..Len(traza) :
       ReferenciaNoDeclarada(traza[k].rec, traza[k].ent, tablaSimbolos) =>
         ~traza[k].ret /\ (Terminado => valido # "si")

\* at position e starts `a = b + c;` with a, b and c of type string in t
SumaDeCadenas(e, t) ==
  /\ e + 5 < Len(tokens)
  /\ \A a \in {e, e + 2, e + 4} :
       /\ Tok(tokens, a).tipo = "IDENTIFICADOR"
       /\ EnTabla(t, Tok(tokens, a).valor)
       /\ SimboloDe(t, Tok(tokens, a).valor).tipo = kString
  /\ Tok(tokens, e + 1).valor = <<"=">>
  /\ Tok(tokens, e + 3).valor = <<"+">>
  /\ EsPuntoYComa(tokens, e + 5)

\* C5: for strings s and t, `s = s + t;` passes the type check while the
\* tree is built (the type stack then holds the single entry String), fails
\* in the evaluation with the error of the operations on strings, which is
\* caught: the call returns false with the cursor and the table as they were,
\* nothing is concatenated, and the run ends with the verdict invalid.
C5_StringSumFailsAtEvaluation ==
  /\ (ult.rec = "operacion" /\ SumaDeCadenas(ult.ent, ult.tabla0)) =>
       /\ ult.op.construyo
       /\ ult.op.pilaInsp = <<"STRING">>
       /\ ult.op.motivo = "excepcion_evaluar"
       /\ ult.op.que = "Las operaciones con strings"
       /\ ult.op.fin = ""
       /\ ~ult.ret
       /\ i = ult.ent
       /\ tablaSimbolos = ult.tabla0
  /\ (\E k \in 1..Len(traza) :
        traza[k].rec = "operacion" /\ SumaDeCadenas(traza[k].ent, tablaSimbolos)) =>
       /\ tablaSimbolos = ult.tabla0
       /\ Terminado => valido = "no"

C5_Witness ==
  /\ Terminado /\ valido = "no"
  /\ ult.rec = "operacion" /\ SumaDeCadenas(ult.ent, ult.tabla0)
  /\ ult.op.pilaInsp = <<"STRING">>
  /\ SimboloDe(tablaSimbolos, <<"s">>).valor = <<"\"", "a", "\"">>

\* the token at position a is a number or an identifier
EsOperando(a) == Tok(tokens, a).tipo \in {"NUMERO", "IDENTIFICADOR"}

\* at position e starts `d = t op t ... op t;`, without parentheses, and b is
\* the position of its `;`
SinParentesis(e, b) ==
  /\ b < Len(tokens) /\ b >= e + 3 /\ (b - e) % 2 = 1
  /\ Tok(tokens, e).tipo = "IDENTIFICADOR"
  /\ Tok(tokens, e + 1).valor = <<"=">>
  /\ EsPuntoYComa(tokens, b)
  /\ \A a \in (e + 2)..(b - 1) :
       IF (a - e) % 2 = 0 THEN EsOperando(a) ELSE Tok(tokens, a).tipo = "ARITMETICO"

\* the value of the operand at position a, with the variables as in t
ValorOperando(a, t) ==
  IF Tok(tokens, a).tipo = "NUMERO" THEN Stod(Tok(tokens, a).valor).v
  ELSE Stod(SimboloDe(t, Tok(tokens, a).valor).valor).v

\* ((t1 op1 t2) op2 t3) ...: acc is the value of the operands before position
\* a, the position of the next operator; b is the position of the `;`
RECURSIVE DeIzquierdaADerecha(_, _, _, _)
DeIzquierdaADerecha(acc, a, b, t) ==
  IF a >= b THEN acc
  ELSE DeIzquierdaADerecha(
         Operar(Tok(tokens, a).valor[1], acc, ValorOperando(a + 1, t)).v, a + 2, b, t)

\* at position e starts `d = t op (t op t);`
ConGrupo(e) ==
  /\ e + 9 < Len(tokens)
  /\ Tok(tokens, e).tipo = "IDENTIFICADOR"
  /\ Tok(tokens, e + 1).valor = <<"=">>
  /\ EsOperando(e + 2) /\ EsOperando(e + 5) /\ EsOperando(e + 7)
  /\ Tok(tokens, e + 3).tipo = "ARITMETICO" /\ Tok(tokens, e + 6).tipo = "ARITMETICO"
  /\ Tok(tokens, e + 4).tipo = "PARENTESIS_IZQUIERDO"
  /\ Tok(tokens, e + 8).tipo = "PARENTESIS_DERECHO"
  /\ EsPuntoYComa(tokens, e + 9)

\* the value of t1 op1 (t2 op2 t3) at position e, with the variables as in t
ValorConGrupo(e, t) ==
  Operar(Tok(tokens, e + 3).valor[1], ValorOperando(e + 2, t),
         Operar(Tok(tokens, e + 6).valor[1], ValorOperando(e + 5, t),
                ValorOperando(e + 7, t)).v).v

\* the symbol d of the table holds the text of the value v, for the type d had
\* in t
Guarda(d, v, t) ==
  \E ub \in ValoresIndefinidos :
    SimboloDe(tablaSimbolos, d).valor
      = TextoResultado(stringToDataType(SimboloDe(t, d).tipo), v, ub)

\* C6: an accepted assignment `d = t1 op1 t2 op2 t3 ...;` without parentheses
\* stores the text of ((t1 op1 t2) op2 t3)..., whatever the operators: all
\* four are applied from left to right, none binds tighter than another.  With
\* parentheses, `d = t1 op1 (t2 op2 t3);` stores t1 op1 (t2 op2 t3).
C6_LeftToRight ==
  /\ (/\ ult.rec = "operacion" /\ ult.ret
      /\ SinParentesis(ult.ent, PosPuntoYComa(ult.ent))) =>
       /\ ult.sal = PosPuntoYComa(ult.ent) + 1
       /\ Guarda(Tok(tokens, ult.ent).valor,
                 DeIzquierdaADerecha(ValorOperando(ult.ent + 2, ult.tabla0),
                                     ult.ent + 3, PosPuntoYComa(ult.ent), ult.tabla0),
                 ult.tabla0)
  /\ (ult.rec = "operacion" /\ ult.ret /\ ConGrupo(ult.ent)) =>
       Guarda(Tok(tokens, ult.ent).valor, ValorConGrupo(ult.ent, ult.tabla0),
              ult.tabla0)

\* `x = x + 4 * 5;` with x = 2 was accepted and stored 30, not 22
C6_Witness ==
  /\ ult.rec = "operacion" /\ ult.ret
  /\ PosPuntoYComa(ult.ent) = ult.ent + 7
  /\ SinParentesis(ult.ent, ult.ent + 7)
  /\ TextoEntre(ult.ent, ult.ent + 7) = <<"x", "=", "x", "+", "4", "*", "5">>
  /\ SimboloDe(tablaSimbolos, <<"x">>).valor = <<"3", "0">>

\* the type in t of the destination at position e
TipoDestino(e, t) == stringToDataType(SimboloDe(t, Tok(tokens, e).valor).tipo)

\* C7: when the type inferred for the expression is not the declared type of
\* the destination, the assignment returns false with the table as it was and
\* the cursor back at the start of the statement; it is accepted only when
\* the two types are equal.  An Int expression for a Float destination is
\* rejected like a Float expression for an Int destination.
C7_AssignmentTypeMustMatch ==
  (ult.rec = "operacion" /\ ult.op.construyo /\ ult.op.pilaInsp # <<>>) =>
    LET tipoExpresion == ult.op.pilaInsp[Len(ult.op.pilaInsp)]
    IN  /\ tipoExpresion # TipoDestino(ult.ent, ult.tabla0) =>
             /\ ~ult.ret
             /\ ult.sal = ult.ent
             /\ i = ult.ent
             /\ tablaSimbolos = ult.tabla0
        /\ ult.ret => tipoExpresion = TipoDestino(ult.ent, ult.tabla0)

\* `f = x + 1;`, an Int expression for the Float f, was rejected
C7_Witness ==
  /\ ult.rec = "operacion" /\ ~ult.ret
  /\ ult.op.construyo /\ ult.op.pilaInsp = <<"INT">>
  /\ TipoDestino(ult.ent, ult.tabla0) = "FLOAT"
  /\ TextoEntre(ult.ent, ult.ent + 6) = <<"f", "=", "x", "+", "1", ";">>
  /\ i = ult.ent /\ tablaSimbolos = ult.tabla0

\* the calls made by the loop of the body (or bodies) of the block whose
\* return is traza[k], that consumed tokens
Hijos(k) ==
  {j \in 1..(k - 1) :
     /\ traza[j].nivel = traza[k].nivel + 1
     /\ traza[j].ent >= traza[k].ent + 7
     /\ traza[j].sal > traza[j].ent}

\* the token at position p is a `{`, a `}` or an else
EsDelimitador(p) ==
  \/ Tok(tokens, p).tipo \in {"LLAVE_IZQUIERDA", "LLAVE_DERECHA"}
  \/ EsElse(tokens, p)

\* C8: in an accepted if or while, the statements of the body, and of the else
\* body, are each taken by one call and by no other, in the order of the text,
\* whatever the comparison gives: the calls do not overlap, they follow the
\* text, and the only tokens between the `{` and the end that no call took are
\* the braces and the else.  So the effects of the if body and of the else
\* body are both applied, and those of a while body once: x, declared 5, is
\* 8 after `if (x < 3) { x = x + 1; } else { x = x + 1; }` and
\* `while (x < 7) { x = x + 1; }`.
C8_BodiesOnceInOrder ==
  /\ \A k \in 1..Len(traza) :
       (traza[k].rec \in {"if", "while"} /\ traza[k].ret) =>
         /\ \A a, b \in Hijos(k) : a < b => traza[a].sal <= traza[b].ent
         /\ \A p \in (traza[k].ent + 7)..(traza[k].sal - 1) :
              \/ \E j \in Hijos(k) : traza[j].ent <= p /\ p < traza[j].sal
              \/ EsDelimitador(p)
  /\ (Terminado /\ codigo = CodigoCompleto(Nucleo)) =>
       /\ valido = "si"
       /\ SimboloDe(tablaSimbolos, <<"x">>).valor = <<"8">>

\* an if whose comparison fails was accepted with a call in each body
C8_Witness ==
  /\ ult.rec = "if" /\ ult.ret /\ ult.motivo = "if_con_else"
  /\ TextoEntre(ult.ent, ult.ent + 6) = <<"i", "f">> \o <<"(", "x", "<", "3", ")">>
  /\ SimboloDe(ult.tabla0, <<"x">>).valor = <<"5">>
  /\ \E a, b \in Hijos(Len(traza)) :
       /\ traza[a].ret /\ traza[b].ret
       /\ traza[a].sal + 3 = traza[b].ent
       /\ traza[b].sal + 1 = ult.sal

\* traza[k] is the return of a recognizer from a statement that starts as one
\* of its forms and is malformed
Malformada(k) ==
  LET v == traza[k]
  IN  \/ /\ v.rec = "declaracion"
         /\ FormaDeclaracion(tokens, v.ent) /\ ~EsPuntoYComa(tokens, v.ent + 4)
      \/ /\ v.rec = "if"
         /\ FormaIf(tokens, v.ent) /\ ~EsLlaveIzquierda(tokens, v.ent + 6)
      \/ /\ v.rec = "while"
         /\ FormaWhile(tokens, v.ent) /\ ~EsLlaveIzquierda(tokens, v.ent + 6)
      \/ /\ v.rec = "if" /\ ~v.ret /\ v.sal > v.ent
         /\ EsElse(tokens, v.sal - 1) /\ ~EsLlaveIzquierda(tokens, v.sal)

\* C9 as stated: after a statement that starts as a declaration, an if or a
\* while and is malformed (a declaration without its `;`, a header without
\* its `{`, an else without its `{`), no recognizer accepts anything or moves
\* the cursor past the point of the failure, and the run does not end valid.
C9_MalformedEndsAnalysis ==
  \A k \in 1..Len(traza) :
    Malformada(k) =>
      /\ \A j \in (k + 1)..Len(traza) :
           ~traza[j].ret /\ traza[j].sal <= traza[k].sal
      /\ Terminado => valido # "si"

\* C10 as stated: when the assignment recognizer fails (and read nothing past
\* the end of the tokens), the failure is caught: the run goes on, and the
\* cursor is where it was when the recognizer was called.
C10_AssignmentFailureRestoresCursor ==
  (/\ ult.rec = "operacion" /\ ~ult.ret
   /\ ~ult.op.fuera /\ ult.op.fin # "indefinido") =>
    /\ valido # "abortado"
    /\ ult.sal = ult.ent
    /\ i = ult.ent

\* every symbol of the table t is in t2 at its place, with its name, type and id
Conserva(t, t2) ==
  /\ Len(t2) >= Len(t)
  /\ \A k \in 1..Len(t) :
       /\ t2[k].nombre = t[k].nombre
       /\ t2[k].tipo = t[k].tipo
       /\ t2[k].id_contador = t[k].id_contador

\* a symbol of t has another value in t2
CambiaValor(t, t2) ==
  \E k \in 1..Len(t) : k <= Len(t2) /\ t2[k].valor # t[k].valor

\* the step is the return of a call of the recognizer rec that succeeded
RetornaCon(rec) ==
  /\ Len(traza') = Len(traza) + 1
  /\ ult'.rec = rec
  /\ ult'.ret

\* C11 as stated: in every step of a run, the table keeps its symbols with
\* their names, types and ids; it grows only in the return of a declaration
\* that succeeded, and a value changes only in the return of an assignment
\* that succeeded.
C11_TableChangesOnlyBySuccess ==
  [][/\ Conserva(tablaSimbolos, tablaSimbolos')
     /\ Len(tablaSimbolos') > Len(tablaSimbolos) => RetornaCon("declaracion")
     /\ CambiaValor(tablaSimbolos, tablaSimbolos') => RetornaCon("operacion")]_vars

\* C11 apart from the symbol a declaration without its `;` leaves
C11_ApartFromUnfinishedDeclaration ==
  [][/\ Conserva(tablaSimbolos, tablaSimbolos')
     /\ Len(tablaSimbolos') > Len(tablaSimbolos) =>
          \/ RetornaCon("declaracion")
          \/ ult'.rec = "declaracion" /\ ult'.motivo = "sin_punto_y_coma"
     /\ CambiaValor(tablaSimbolos, tablaSimbolos') => RetornaCon("operacion")]_vars

\* the integer part of the fraction v: v without its decimals
Trunca(v) == IF v.n >= 0 THEN v.n \div v.d ELSE -((-v.n) \div v.d)

\* the run of `int z = 0;` and the assignment a ended valid with z holding texto
TerminaConZ(a, texto) ==
  (Terminado /\ codigo = CodigoCompleto(<<lIntZ, a>>)) =>
    /\ valido = "si"
    /\ SimboloDe(tablaSimbolos, <<"z">>).valor = texto

\* C12: an accepted assignment `d = t1 op1 t2 ... ;` to an Int destination
\* stores the decimal text of the integer part of ((t1 op1 t2) op2 t3)...,
\* every division being the exact quotient, when that value is finite: the
\* decimals are dropped once, at the end, toward zero.  `z = 7 / 2;` stores 3,
\* `z = 7 / 2 * 2;` stores 7 and `z = 1 - 8 / 2;` stores -3.
C12_IntTruncatesOnce ==
  /\ (/\ ult.rec = "operacion" /\ ult.ret
      /\ SinParentesis(ult.ent, PosPuntoYComa(ult.ent))
      /\ TipoDestino(ult.ent, ult.tabla0) = "INT") =>
       LET v == DeIzquierdaADerecha(ValorOperando(ult.ent + 2, ult.tabla0),
                                    ult.ent + 3, PosPuntoYComa(ult.ent), ult.tabla0)
           guardado == SimboloDe(tablaSimbolos, Tok(tokens, ult.ent).valor).valor
       IN  v.k = "fin" =>
             /\ EsEntero(guardado)
             /\ Stod(guardado).v = Fin(Trunca(v), 1)
  /\ TerminaConZ(lZ7Entre2, <<"3">>)
  /\ TerminaConZ(lZ7Entre2Por2, <<"7">>)
  /\ TerminaConZ(lZ1Menos8Entre2, <<"-", "3">>)

\* `z = 1 - 8 / 2;` was accepted and stored -3: (1 - 8) / 2 is -3.5
C12_Witness ==
  /\ Terminado /\ codigo = CodigoCompleto(<<lIntZ, lZ1Menos8Entre2>>)
  /\ ult.rec = "operacion" /\ ult.ret
  /\ DeIzquierdaADerecha(ValorOperando(ult.ent + 2, ult.tabla0), ult.ent + 3,
                         PosPuntoYComa(ult.ent), ult.tabla0) = Fin(-7, 2)
  /\ SimboloDe(tablaSimbolos, <<"z">>).valor = <<"-", "3">>

\* the type of the operand at position a, with the variables as in t
TipoOperando(a, t) ==
  IF Tok(tokens, a).tipo = "NUMERO"
  THEN (IF \E j \in 1..Len(Tok(tokens, a).valor) : Tok(tokens, a).valor[j] = "."
        THEN "FLOAT" ELSE "INT")
  ELSE stringToDataType(SimboloDe(t, Tok(tokens, a).valor).tipo)

\* the combination of two types: Int with Float gives Float, equal types give
\* that type, anything else is "ilegal"; conOperador: two strings are taken
\* with the operator `+` only
Combina(a, b, op, conOperador) ==
  IF {a, b} = {"INT", "FLOAT"} THEN "FLOAT"
  ELSE IF a # b \/ a = "ilegal" THEN "ilegal"
       ELSE IF conOperador /\ a = "STRING" /\ op # "+" THEN "ilegal" ELSE a

\* the type of ((t1 op1 t2) op2 t3)...: acc is the type of the operands before
\* position a, the position of the next operator; b is the position of the `;`
RECURSIVE TipoDeIzquierdaADerecha(_, _, _, _, _)
TipoDeIzquierdaADerecha(acc, a, b, t, conOperador) ==
  IF a >= b THEN acc
  ELSE TipoDeIzquierdaADerecha(
         Combina(acc, TipoOperando(a + 1, t), Tok(tokens, a).valor[1], conOperador),
         a + 2, b, t, conOperador)

\* the call that returned last took `d = t1 op1 t2 ... ;` with d and every
\* variable among the operands declared
CadenaDeclarada ==
  /\ ult.rec = "operacion"
  /\ SinParentesis(ult.ent, PosPuntoYComa(ult.ent))
  /\ \A a \in {ult.ent} \cup {ult.ent + 2 * k : k \in 1..((PosPuntoYComa(ult.ent) - ult.ent) \div 2)} :
       Tok(tokens, a).tipo = "IDENTIFICADOR" => EnTabla(ult.tabla0, Tok(tokens, a).valor)

\* the type that the rule gives the expression of that call
TipoCadena(conOperador) ==
  TipoDeIzquierdaADerecha(TipoOperando(ult.ent + 2, ult.tabla0), ult.ent + 3,
                          PosPuntoYComa(ult.ent), ult.tabla0, conOperador)

\* the builder threw the type mismatch: nothing was evaluated, the call
\* returned false with the cursor and the table as they were
FallaAlConstruir ==
  /\ ~ult.op.construyo
  /\ ult.op.motivo = "excepcion_construir"
  /\ ult.op.que = "Tipos incompatibles"
  /\ ~ult.ret /\ ult.sal = ult.ent /\ tablaSimbolos = ult.tabla0

\* the builder returned with the type ty pushed on the stack it found
ConstruyeCon(ty) ==
  /\ ult.op.construyo
  /\ ult.op.pilaInsp = Append(ult.pila0, ty)

\* C13 as stated: the builder combines the types by the rule that takes two
\* strings with `+` only; an illegal combination makes the build fail with the
\* type mismatch, before any evaluation.
C13_BuilderAppliesStringRule ==
  CadenaDeclarada =>
    IF TipoCadena(TRUE) = "ilegal" THEN FallaAlConstruir
    ELSE ConstruyeCon(TipoCadena(TRUE))

\* the expression of that call has an operator other than `+`
ConOtroOperador ==
  \E a \in (ult.ent + 3)..(PosPuntoYComa(ult.ent) - 1) :
    Tok(tokens, a).tipo = "ARITMETICO" /\ Tok(tokens, a).valor # <<"+">>

\* C13 amended: the builder pops the two most recent types and pushes their
\* combination whatever the operator: Int with Float in either order gives
\* Float, equal types give that type (two strings too, with any operator), and
\* any other pair makes the build fail with the type mismatch before any
\* evaluation.  Two strings with an operator other than `+` pass the build
\* with String on the stack; the statement fails later, in the evaluation,
\* with the error that only the concatenation is allowed.
C13_BuilderIgnoresOperator ==
  CadenaDeclarada =>
    /\ IF TipoCadena(FALSE) = "ilegal" THEN FallaAlConstruir
       ELSE ConstruyeCon(TipoCadena(FALSE))
    /\ (TipoCadena(FALSE) = "STRING" /\ ConOtroOperador) =>
         /\ ult.op.motivo = "excepcion_evaluar"
         /\ ult.op.que = "solo se permite la concatenacion"
         /\ ~ult.ret /\ ult.sal = ult.ent /\ tablaSimbolos = ult.tabla0

\* `s = s - t;` passed the build with String on the stack and failed in the
\* evaluation
C13_Witness ==
  /\ CadenaDeclarada
  /\ TextoEntre(ult.ent, ult.ent + 6) = <<"s", "=", "s", "-", "t", ";">>
  /\ ult.op.construyo /\ ult.op.pilaInsp = <<"STRING">>
  /\ ult.op.motivo = "excepcion_evaluar" /\ ~ult.ret

\* C14: whenever construirAST returns normally to esOperacionAritmetica, the
\* type stack holds exactly one entry, and it is empty after the recognizer
\* pops it: at top level, where the driver clears the stack before each
\* statement, and inside if and while blocks, where nothing clears it, with
\* and without parentheses.  No call pops, or reads the top of, an empty stack.
C14_OneTypeWhenInspected ==
  ult.rec = "operacion" =>
    /\ ult.op.motivo # "pila_vacia"
    /\ ult.op.fin # "indefinido"
    /\ ult.op.construyo =>
         /\ Len(ult.op.pilaInsp) = 1
         /\ ult.op.pila = <<>>
         /\ valido # "abortado" => pilaSemantica = <<>>

\* inside a block, `x = x + 1;` was accepted with one type on the stack right
\* after `x = 2 * (x - 7);` was, nothing having cleared the stack in between
C14_Witness ==
  /\ ult.rec = "operacion" /\ ult.ret /\ ult.nivel > 1
  /\ ult.op.pilaInsp = <<"INT">>
  /\ TextoEntre(ult.ent, ult.ent + 6) = <<"x", "=", "x", "+", "1", ";">>
  /\ \E k \in 1..(Len(traza) - 1) :
       /\ traza[k].rec = "operacion" /\ traza[k].ret
       /\ traza[k].nivel = ult.nivel
       /\ traza[k].sal = ult.ent
       /\ TextoEntre(traza[k].ent, traza[k].sal)
            = <<"x", "=", "2", "*", "(", "x", "-", "7", ")", ";">>

\* C15 as stated: a call of the assignment recognizer that succeeds, or that
\* changes a value of the table, found at the cursor a declared identifier
\* followed by the operator `=`: `x + 3;` and `x ; 3;` are not accepted and
\* leave x as it was.
C15_AssignmentNeedsEquals ==
  (/\ ult.rec = "operacion"
   /\ ult.ret \/ CambiaValor(ult.tabla0, tablaSimbolos)) =>
    /\ Tok(tokens, ult.ent).tipo = "IDENTIFICADOR"
    /\ EnTabla(ult.tabla0, Tok(tokens, ult.ent).valor)
    /\ Tok(tokens, ult.ent + 1).tipo = "OPERADOR"
    /\ Tok(tokens, ult.ent + 1).valor = <<"=">>

\* C15 but for the token after the destination, which may be any token
C15_ApartFromSecondToken ==
  (/\ ult.rec = "operacion"
   /\ ult.ret \/ CambiaValor(ult.tabla0, tablaSimbolos)) =>
    /\ Tok(tokens, ult.ent).tipo = "IDENTIFICADOR"
    /\ EnTabla(ult.tabla0, Tok(tokens, ult.ent).valor)
    /\ ult.ret /\ EsPuntoYComa(tokens, ult.sal - 1)

\* C16 as stated: no call reads a token at an index that is not below the
\* number of tokens.  (The reads of the driver, of analizarBloque and of the
\* other recognizers are behind a test of the index; those of
\* esOperacionAritmetica and of construirAST are recorded in fuera.)
C16_NoReadPastEnd ==
  ult.rec = "operacion" => ~ult.op.fuera

\* the reads past the end are those of the condition of esOperacionAritmetica
\* when fewer than two tokens are left, and that of construirAST for the
\* operand after an operator that is the last token
C16_ReadsPastEndAreAtTheEnd ==
  (ult.rec = "operacion" /\ ult.op.fuera) =>
    \/ ult.ent + 1 >= Len(tokens)
    \/ Tok(tokens, Len(tokens) - 1).tipo \in {"ARITMETICO", "PARENTESIS_IZQUIERDO"}

====
